---- MODULE Spec2Model ----
(***************************************************************************)
(* A model of schemafy_lib's Generator (src/schemafy_lib/src/generator.rs):*)
(* the builder, the project-root lookup, and a generation run with its     *)
(* file system, environment and formatter.                                 *)
(***************************************************************************)
EXTENDS Naturals, Sequences, FiniteSets, TLC

VARIABLES
    \* GeneratorBuilder
    bpc,            \* "building" | "built"
    inner,          \* GeneratorBuilder.inner
    calls,          \* the builder calls made so far (history)
    \* Generator
    gen,            \* the Generator a run works on
    \* the process environment and the file system
    manifest_dir,   \* the variable CARGO_MANIFEST_DIR
    cwd,            \* what std::env::current_dir() answers
    dirs,           \* directory path -> its listing
    files,          \* file path -> its content
    out_file,       \* the content at the output path
    env_changes,    \* how often the environment was changed
    \* one run of generate / generate_to_file
    pc,             \* position in the run
    method,         \* "generate" | "generate_to_file"
    input_file,     \* local input_file of generate_from_file
    json,           \* local json
    schema,         \* local schema
    tokens,         \* the token stream
    result,         \* how the run ended
    lookups,        \* calls of get_crate_root in this run
    fmt,            \* what became of the formatter in this run
    exp_args,       \* the arguments handed to Expander::new
    snap,           \* the configuration, environment and output file at the start
    written,        \* the output file's content right after the write
    prev,           \* the previous finished run
    \* a bare call of get_crate_root
    root_result

bvars == <<bpc, inner, calls, gen>>
evars == <<manifest_dir, cwd, dirs, files>>
rvars == <<pc, method, input_file, json, schema, tokens, result, lookups, fmt,
           exp_args, snap, written, prev>>
vars == <<bpc, inner, calls, gen, manifest_dir, cwd, dirs, files, out_file,
          env_changes, pc, method, input_file, json, schema, tokens, result,
          lookups, fmt, exp_args, snap, written, prev, root_result>>

----------------------------------------------------------------------------
\* Bounds

MaxCalls == 3
MaxEnvChanges == 1

----------------------------------------------------------------------------
\* Option and Result

None == [some |-> FALSE]
Some(x) == [some |-> TRUE, val |-> x]
Ok(x) == [ok |-> TRUE, val |-> x]
Err(e) == [ok |-> FALSE, err |-> e]

----------------------------------------------------------------------------
\* Paths: absolute or relative, a sequence of components. A component that is
\* not valid Unicode is written with a <..> byte in it.

AbsPath(comps) == [abs |-> TRUE, comps |-> comps]
RelPath(comps) == [abs |-> FALSE, comps |-> comps]

NonUnicode == {"m<E9>", "a<E9>.json"}

IsUnicode(p) == \A i \in DOMAIN p.comps : p.comps[i] \notin NonUnicode

\* Path::is_relative
is_relative(p) == ~p.abs

\* Path::join: an absolute argument replaces the base
join(base, p) ==
    IF p.abs THEN p ELSE [abs |-> base.abs, comps |-> base.comps \o p.comps]

\* Path::ancestors: the path itself, then each parent up to the root
ancestors(p) ==
    [i \in 1 .. Len(p.comps) + 1 |->
        [abs |-> p.abs, comps |-> SubSeq(p.comps, 1, Len(p.comps) + 1 - i)]]

\* Path::to_string_lossy: bytes that are not valid Unicode become U+FFFD
LossyComp(c) ==
    IF c = "m<E9>" THEN "m<FFFD>"
    ELSE IF c = "a<E9>.json" THEN "a<FFFD>.json"
    ELSE c

to_string_lossy(p) ==
    [abs |-> p.abs, comps |-> [i \in DOMAIN p.comps |-> LossyComp(p.comps[i])]]

----------------------------------------------------------------------------
\* The environment

Root == AbsPath(<<>>)
DirW == AbsPath(<<"w">>)
DirWC == AbsPath(<<"w", "c">>)
DirM == AbsPath(<<"m">>)
DirBad == AbsPath(<<"m<E9>">>)

DirPaths == {Root, DirW, DirWC}

Unset == [set |-> FALSE]
SetTo(p) == [set |-> TRUE, val |-> p]
ManifestValues == {Unset, SetTo(DirM), SetTo(DirBad)}

CwdValues == {Ok(DirWC), Ok(DirW), Err("NotFound")}

\* A directory entry as read_dir yields it: Ok(entry) or an error
Entry(name) == [ok |-> TRUE, file_name |-> name]
EntryErr == [ok |-> FALSE, err |-> "Io"]

Unlistable == [listable |-> FALSE, entries |-> {}]
Listing(es) == [listable |-> TRUE, entries |-> es]
DirStates ==
    {Unlistable, Listing({Entry("src")}), Listing({Entry("src"), Entry("Cargo.toml")}),
     Listing({EntryErr, Entry("src")})}

\* std::env::var: an error when the variable is unset or not valid Unicode
env_var(v) ==
    IF ~v.set THEN Err("NotPresent")
    ELSE IF ~IsUnicode(v.val) THEN Err("NotUnicode")
    ELSE Ok(v.val)

\* std::fs::read_dir
read_dir(p) ==
    IF p \in DOMAIN dirs /\ dirs[p].listable THEN Ok(dirs[p].entries)
    ELSE Err("ReadDir")

\* .filter_map(Result::ok).any(|p| p.file_name().eq("Cargo.toml"))
HasCargoToml(entries) ==
    \E e \in {x \in entries : x.ok} : e.file_name = "Cargo.toml"

RECURSIVE SearchAncestors(_, _, _)
SearchAncestors(anc, i, current_dir) ==
    IF i > Len(anc) THEN Ok(current_dir)
    ELSE LET rd == read_dir(anc[i]) IN
         IF ~rd.ok THEN Err(rd.err)
         ELSE IF HasCargoToml(rd.val) THEN Ok(anc[i])
         ELSE SearchAncestors(anc, i + 1, current_dir)

get_crate_root ==
    LET v == env_var(manifest_dir) IN
    IF v.ok THEN Ok(v.val)
    ELSE IF ~cwd.ok THEN Err(cwd.err)
    ELSE SearchAncestors(ancestors(cwd.val), 1, cwd.val)

----------------------------------------------------------------------------
\* Generator and GeneratorBuilder

RelSchema == RelPath(<<"schema.json">>)
AbsJson == AbsPath(<<"abs.json">>)
BadJson == AbsPath(<<"a<E9>.json">>)

File(p) == [kind |-> "File", path |-> p]
Unknown(text) == [kind |-> "Unknown", text |-> text]

RootNames == {"Schema"}
SchemafyPaths == {"::schemafy_core::", "::my_core::"}
InputPaths == {RelSchema, AbsJson, BadJson}
InputTexts == {"{A}"}

Generators ==
    [root_name : {None} \cup {Some(n) : n \in RootNames},
     schemafy_path : SchemafyPaths,
     input_file : {File(p) : p \in InputPaths} \cup {Unknown(t) : t \in InputTexts}]

\* no Generator exists before build()
NoGenerator == [root_name |-> None, schemafy_path |-> "", input_file |-> [kind |-> "none"]]

\* GeneratorBuilder::default
BuilderDefault ==
    [root_name |-> None,
     schemafy_path |-> "::schemafy_core::",
     input_file |-> File(RelPath(<<"schema.json">>))]

with_input_as_file(b, input) ==
    [b EXCEPT !.input_file = File(RelPath(<<input>>))]

with_root_name(b, root_name) == [b EXCEPT !.root_name = root_name]

with_root_name_str(b, root_name) == [b EXCEPT !.root_name = Some(root_name)]

with_input_file(b, p) == [b EXCEPT !.input_file = File(p)]

with_input(b, input) == [b EXCEPT !.input_file = Unknown(input)]

with_schemafy_path(b, schemafy_path) == [b EXCEPT !.schemafy_path = schemafy_path]

Call(fn, arg) == [fn |-> fn, arg |-> arg]

CanCall == bpc = "building" /\ Len(calls) < MaxCalls

WithRootName ==
    \E r \in {None} \cup {Some(n) : n \in RootNames} :
        /\ CanCall
        /\ inner' = with_root_name(inner, r)
        /\ calls' = Append(calls, Call("with_root_name", r))
        /\ UNCHANGED <<bpc, gen>>
        /\ UNCHANGED <<evars, out_file, env_changes, rvars, root_result>>

WithRootNameStr ==
    \E n \in RootNames :
        /\ CanCall
        /\ inner' = with_root_name_str(inner, n)
        /\ calls' = Append(calls, Call("with_root_name_str", n))
        /\ UNCHANGED <<bpc, gen>>
        /\ UNCHANGED <<evars, out_file, env_changes, rvars, root_result>>

WithInputFile ==
    \E p \in InputPaths :
        /\ CanCall
        /\ inner' = with_input_file(inner, p)
        /\ calls' = Append(calls, Call("with_input_file", p))
        /\ UNCHANGED <<bpc, gen>>
        /\ UNCHANGED <<evars, out_file, env_changes, rvars, root_result>>

WithInput ==
    \E t \in InputTexts :
        /\ CanCall
        /\ inner' = with_input(inner, t)
        /\ calls' = Append(calls, Call("with_input", t))
        /\ UNCHANGED <<bpc, gen>>
        /\ UNCHANGED <<evars, out_file, env_changes, rvars, root_result>>

WithSchemafyPath ==
    \E s \in SchemafyPaths :
        /\ CanCall
        /\ inner' = with_schemafy_path(inner, s)
        /\ calls' = Append(calls, Call("with_schemafy_path", s))
        /\ UNCHANGED <<bpc, gen>>
        /\ UNCHANGED <<evars, out_file, env_changes, rvars, root_result>>

Build ==
    /\ bpc = "building"
    /\ bpc' = "built"
    /\ gen' = inner
    /\ UNCHANGED <<inner, calls>>
    /\ UNCHANGED <<evars, out_file, env_changes, rvars, root_result>>

----------------------------------------------------------------------------
\* Files, JSON, expansion, text

Missing == [exists |-> FALSE]
Content(text) == [exists |-> TRUE, text |-> text]

FilePaths ==
    {join(DirW, RelSchema), join(DirM, RelSchema), join(DirWC, RelSchema), AbsJson}

\* "<bytes>" is content that is not valid UTF-8, "not json" is text that is no JSON
FileTexts == {"{A}", "{B}", "{not}", "not json", "<bytes>"}
FileStates == {Missing} \cup {Content(t) : t \in FileTexts}

\* std::fs::read_to_string; the system resolves a relative path against the
\* current directory
read_to_string(p) ==
    IF ~p.abs /\ ~cwd.ok THEN Err("NotFound")
    ELSE LET q == IF p.abs THEN p ELSE join(cwd.val, p) IN
         IF q \notin DOMAIN files \/ ~files[q].exists THEN Err("NotFound")
         ELSE IF files[q].text = "<bytes>" THEN Err("InvalidData")
         ELSE Ok(files[q].text)

\* serde_json::from_str into a Schema
from_str(text) ==
    IF text = "{A}" THEN Ok([defs |-> "A"])
    ELSE IF text = "{B}" THEN Ok([defs |-> "B"])
    ELSE IF text = "{not}" THEN Ok([defs |-> "not"])
    ELSE Err("Syntax")

\* Expander::new(root_name, schemafy_path, &schema).expand(&schema): a token
\* stream, or a fatal error on a construct that has no mapping
expand(root_name, schemafy_path, sch) ==
    IF sch.defs = "not" THEN Err("UnsupportedConstruct")
    ELSE Ok([decls |-> sch.defs, prefix |-> schemafy_path, alias |-> root_name])

\* TokenStream::to_string
to_string(t) ==
    <<t.prefix, t.decls>> \o (IF t.alias.some THEN <<"type", t.alias.val>> ELSE <<>>)

\* what rustfmt makes of a file it formats
rustfmt(text) == <<"formatted">> \o text

Panic(msg) == [kind |-> "panic", msg |-> msg]
Returned(val) == [kind |-> "returned", val |-> val]
NoResult == [kind |-> "none"]

----------------------------------------------------------------------------
\* A run of generate / generate_to_file

Env == [manifest_dir |-> manifest_dir, cwd |-> cwd, dirs |-> dirs, files |-> files]

NoRun == [valid |-> FALSE]

Methods == {"generate", "generate_to_file"}

\* a caller invokes generate() or generate_to_file(output_file)
CallRun ==
    \E m \in Methods :
        /\ bpc = "built" /\ pc = "idle"
        /\ method' = m
        /\ pc' = "generate"
        /\ snap' = [gen |-> gen, env |-> Env, out |-> out_file]
        /\ UNCHANGED <<bvars, evars, out_file, env_changes, input_file, json, schema,
                       tokens, result, lookups, fmt, exp_args, written, prev,
                       root_result>>

\* generate: match self.input_file
generate ==
    /\ pc = "generate"
    /\ pc' = IF gen.input_file.kind = "File" THEN "resolve" ELSE "unknown"
    /\ UNCHANGED <<bvars, evars, out_file, env_changes, method, input_file, json,
                   schema, tokens, result, lookups, fmt, exp_args, snap, written,
                   prev, root_result>>

generate_from_unknown ==
    /\ pc = "unknown"
    /\ result' = Panic([what |-> "not implemented"])
    /\ pc' = "panicked"
    /\ UNCHANGED <<bvars, evars, out_file, env_changes, method, input_file, json,
                   schema, tokens, lookups, fmt, exp_args, snap, written, prev,
                   root_result>>

ResolveFromCwd(input) ==
    IF is_relative(input)
    THEN [looked |-> FALSE,
          path |-> IF cwd.ok THEN Ok(join(cwd.val, input)) ELSE Err(cwd.err)]
    ELSE [looked |-> FALSE, path |-> Ok(input)]

\* the path to read and whether get_crate_root was called for it
Resolve(input) ==
    IF is_relative(input)
    THEN LET crate_root == get_crate_root IN
         [looked |-> TRUE,
          path |-> IF crate_root.ok THEN Ok(join(crate_root.val, input))
                   ELSE Err(crate_root.err)]
    ELSE [looked |-> FALSE, path |-> Ok(input)]

\* generate_from_file, its first statement
ResolveInput ==
    /\ pc = "resolve"
    /\ LET r == Resolve(gen.input_file.path) IN
        /\ lookups' = lookups + (IF r.looked THEN 1 ELSE 0)
        /\ IF r.path.ok
           THEN /\ input_file' = Some(r.path.val)
                /\ pc' = "read"
                /\ UNCHANGED result
           ELSE /\ result' = Panic([what |-> "unwrap", cause |-> r.path.err])
                /\ pc' = "panicked"
                /\ UNCHANGED input_file
    /\ UNCHANGED <<bvars, evars, out_file, env_changes, method, json, schema,
                   tokens, fmt, exp_args, snap, written, prev, root_result>>

ReadPanicConfigured(p, err) ==
    Panic([what |-> "Unable to read", file |-> to_string_lossy(gen.input_file.path),
           cause |-> err])

ReadPanic(p, err) ==
    Panic([what |-> "Unable to read", file |-> to_string_lossy(p), cause |-> err])

ParsePanic(p, err) ==
    Panic([what |-> "Cannot parse as JSON", file |-> to_string_lossy(p), cause |-> err])

ReadInput ==
    /\ pc = "read"
    /\ LET r == read_to_string(input_file.val) IN
        IF r.ok
        THEN /\ json' = Some(r.val)
             /\ pc' = "parse"
             /\ UNCHANGED result
        ELSE /\ result' = ReadPanic(input_file.val, r.err)
             /\ pc' = "panicked"
             /\ UNCHANGED json
    /\ UNCHANGED <<bvars, evars, out_file, env_changes, method, input_file, schema,
                   tokens, lookups, fmt, exp_args, snap, written, prev, root_result>>

ParseJsonOrDefault ==
    /\ pc = "parse"
    /\ LET r == from_str(json.val) IN
        /\ schema' = Some(IF r.ok THEN r.val ELSE [defs |-> "A"])
        /\ pc' = "expand"
        /\ UNCHANGED result
    /\ UNCHANGED <<bvars, evars, out_file, env_changes, method, input_file, json,
                   tokens, lookups, fmt, exp_args, snap, written, prev, root_result>>

ParseJson ==
    /\ pc = "parse"
    /\ LET r == from_str(json.val) IN
        IF r.ok
        THEN /\ schema' = Some(r.val)
             /\ pc' = "expand"
             /\ UNCHANGED result
        ELSE /\ result' = ParsePanic(input_file.val, r.err)
             /\ pc' = "panicked"
             /\ UNCHANGED schema
    /\ UNCHANGED <<bvars, evars, out_file, env_changes, method, input_file, json,
                   tokens, lookups, fmt, exp_args, snap, written, prev, root_result>>

ExpanderArgsNoRoot(g) == [root_name |-> None, schemafy_path |-> g.schemafy_path]

\* (self.root_name.as_deref(), self.schemafy_path)
ExpanderArgs(g) == [root_name |-> g.root_name, schemafy_path |-> g.schemafy_path]

Expand ==
    /\ pc = "expand"
    /\ exp_args' = Some(ExpanderArgs(gen))
    /\ LET a == ExpanderArgs(gen)
           r == expand(a.root_name, a.schemafy_path, schema.val) IN
        IF r.ok
        THEN /\ tokens' = Some(r.val)
             /\ IF method = "generate"
                THEN pc' = "returned" /\ result' = Returned(r.val)
                ELSE pc' = "write" /\ UNCHANGED result
        ELSE /\ result' = Panic([what |-> "expand", cause |-> r.err])
             /\ pc' = "panicked"
             /\ UNCHANGED tokens
    /\ UNCHANGED <<bvars, evars, out_file, env_changes, method, input_file, json,
                   schema, lookups, fmt, snap, written, prev, root_result>>

fs_write_append(old, text) ==
    IF old.exists THEN Content(old.text \o text) ELSE Content(text)

\* std::fs::write when it succeeds: the file is created or truncated, then filled
fs_write(old, text) == Content(text)

\* std::fs::write when it fails: the file could not be opened, or it was
\* created or truncated and only the first k pieces were written
fs_write_failed(old, text, opened, k) ==
    IF ~opened THEN old ELSE Content(SubSeq(text, 1, k))

\* let out = tokens.to_string(); std::fs::write(output_file, &out)?;
WriteOutput ==
    /\ pc = "write"
    /\ LET out == to_string(tokens.val) IN
        \/ /\ out_file' = fs_write(out_file, out)
           /\ written' = Some(out_file')
           /\ pc' = "format"
           /\ UNCHANGED result
        \/ \E opened \in BOOLEAN : \E k \in 0 .. Len(out) - 1 :
               /\ out_file' = fs_write_failed(out_file, out, opened, k)
               /\ result' = Returned(Err("write"))
               /\ pc' = "returned"
               /\ UNCHANGED written
    /\ UNCHANGED <<bvars, evars, env_changes, method, input_file, json, schema,
                   tokens, lookups, fmt, exp_args, snap, prev, root_result>>

FormatterOutcomes == {"no_launch", "exit_failure", "exit_success"}

FormatterResultChecked(o) ==
    IF o = "exit_success" THEN Ok("unit") ELSE Err("formatter")

\* Command::new("rustfmt").arg(..).output()?; Ok(())
FormatterResult(o) ==
    IF o = "no_launch" THEN Err("spawn") ELSE Ok("unit")

AfterFormatterRemove(o, content) ==
    IF o = "exit_success" THEN Content(rustfmt(content.text)) ELSE Missing

\* the output file once the formatter step is over: rustfmt rewrites the file
\* when it succeeds; nothing else touches it
AfterFormatter(o, content) ==
    IF o = "exit_success" THEN Content(rustfmt(content.text)) ELSE content

RunFormatter ==
    /\ pc = "format"
    /\ \E o \in FormatterOutcomes :
        /\ fmt' = o
        /\ out_file' = AfterFormatter(o, out_file)
        /\ result' = Returned(FormatterResult(o))
    /\ pc' = "returned"
    /\ UNCHANGED <<bvars, evars, env_changes, method, input_file, json, schema,
                   tokens, lookups, exp_args, snap, written, prev, root_result>>

\* the run is over; the next call starts afresh
Finish ==
    /\ pc \in {"panicked", "returned"}
    /\ prev' = [valid |-> TRUE, gen |-> snap.gen, env |-> snap.env,
                text |-> IF tokens.some THEN Some(to_string(tokens.val)) ELSE None,
                written |-> written]
    /\ pc' = "idle"
    /\ method' = "none"
    /\ input_file' = None /\ json' = None /\ schema' = None /\ tokens' = None
    /\ result' = NoResult /\ lookups' = 0 /\ fmt' = "none" /\ exp_args' = None
    /\ snap' = NoRun /\ written' = None
    /\ UNCHANGED <<bvars, evars, out_file, env_changes, root_result>>

----------------------------------------------------------------------------
\* The environment changes between runs

CanChange == bpc = "built" /\ pc = "idle" /\ env_changes < MaxEnvChanges

SetManifestDir ==
    \E v \in ManifestValues \ {manifest_dir} :
        /\ CanChange
        /\ manifest_dir' = v
        /\ env_changes' = env_changes + 1
        /\ UNCHANGED <<bvars, cwd, dirs, files, out_file, rvars, root_result>>

ChangeDir ==
    \E c \in CwdValues \ {cwd} :
        /\ CanChange
        /\ cwd' = c
        /\ env_changes' = env_changes + 1
        /\ UNCHANGED <<bvars, manifest_dir, dirs, files, out_file, rvars, root_result>>

ChangeListing ==
    \E d \in DirPaths : \E st \in DirStates \ {dirs[d]} :
        /\ CanChange
        /\ dirs' = [dirs EXCEPT ![d] = st]
        /\ env_changes' = env_changes + 1
        /\ UNCHANGED <<bvars, manifest_dir, cwd, files, out_file, rvars, root_result>>

ChangeFile ==
    \E p \in FilePaths : \E c \in FileStates \ {files[p]} :
        /\ CanChange
        /\ files' = [files EXCEPT ![p] = c]
        /\ env_changes' = env_changes + 1
        /\ UNCHANGED <<bvars, manifest_dir, cwd, dirs, out_file, rvars, root_result>>

\* a bare call of get_crate_root
LookupRoot ==
    /\ ~root_result.some
    /\ root_result' = Some(get_crate_root)
    /\ UNCHANGED <<bvars, evars, out_file, env_changes, rvars>>

----------------------------------------------------------------------------
\* Specifications

DefaultDirs ==
    (Root :> Listing({Entry("src")})) @@
    (DirW :> Listing({Entry("src"), Entry("Cargo.toml")})) @@
    (DirWC :> Listing({Entry("src")}))

DefaultFiles ==
    (join(DirW, RelSchema) :> Content("{A}")) @@
    (join(DirM, RelSchema) :> Content("{B}")) @@
    (join(DirWC, RelSchema) :> Missing) @@
    (AbsJson :> Content("{A}"))

InitRun ==
    /\ pc = "idle" /\ method = "none"
    /\ input_file = None /\ json = None /\ schema = None /\ tokens = None
    /\ result = NoResult /\ lookups = 0 /\ fmt = "none" /\ exp_args = None
    /\ snap = NoRun /\ written = None /\ prev = NoRun
    /\ root_result = None
    /\ env_changes = 0

InitEnv ==
    /\ manifest_dir = Unset
    /\ cwd = Ok(DirWC)
    /\ dirs = DefaultDirs
    /\ files = DefaultFiles

\* runs of a built Generator
Init ==
    /\ bpc = "built" /\ gen \in Generators /\ inner = gen /\ calls = <<>>
    /\ InitEnv
    /\ out_file \in {Missing, Content(<<"old">>)}
    /\ InitRun

Next ==
    \/ CallRun \/ generate \/ generate_from_unknown \/ ResolveInput \/ ReadInput
    \/ ParseJson \/ Expand \/ WriteOutput \/ RunFormatter \/ Finish
    \/ SetManifestDir \/ ChangeDir \/ ChangeListing \/ ChangeFile

Spec == Init /\ [][Next]_vars

\* Generator::builder() ... build()
InitBuilder ==
    /\ bpc = "building" /\ inner = BuilderDefault /\ calls = <<>> /\ gen = NoGenerator
    /\ InitEnv
    /\ out_file = Missing
    /\ InitRun

NextBuilder ==
    \/ WithRootName \/ WithRootNameStr \/ WithInputFile \/ WithInput
    \/ WithSchemafyPath \/ Build

SpecBuilder == InitBuilder /\ [][NextBuilder]_vars

\* get_crate_root in any environment
InitRoot ==
    /\ bpc = "built" /\ gen = BuilderDefault /\ inner = gen /\ calls = <<>>
    /\ manifest_dir \in ManifestValues
    /\ cwd \in CwdValues
    /\ dirs \in [DirPaths -> DirStates]
    /\ files = DefaultFiles
    /\ out_file = Missing
    /\ InitRun

NextRoot == LookupRoot

SpecRoot == InitRoot /\ [][NextRoot]_vars

----------------------------------------------------------------------------
\* Properties

InRun == pc # "idle"
Ended == pc \in {"panicked", "returned"}
ToFile == method = "generate_to_file"

\* the input was read, parsed and expanded successfully in this run
GeneratedOk ==
    /\ input_file.some /\ json.some /\ schema.some /\ tokens.some
    /\ read_to_string(input_file.val) = Ok(json.val)
    /\ from_str(json.val) = Ok(schema.val)
    /\ expand(gen.root_name, gen.schemafy_path, schema.val) = Ok(tokens.val)

\* C1: in a run of generate_to_file the output path is touched and the
\* formatter invoked only after the input was read, parsed and expanded
\* successfully; a run that aborts leaves the output path as it was at the
\* start and has not invoked the formatter.
C1_NoOutputOnFatalError ==
    (InRun /\ ToFile) =>
        /\ (out_file # snap.out \/ written.some \/ fmt # "none") => GeneratedOk
        /\ (result.kind = "panic") = (pc = "panicked")
        /\ pc = "panicked" => (out_file = snap.out /\ ~written.some /\ fmt = "none")
        /\ (pc \in {"write", "format", "returned"}) => GeneratedOk

\* an expansion failure with a file already at the output path
C1_Witness ==
    /\ ToFile /\ pc = "panicked" /\ result.msg.what = "expand"
    /\ snap.out = Content(<<"old">>) /\ out_file = Content(<<"old">>)

\* C2: for a Generator built with with_input(text), generate() returns the
\* token stream of that document, as a file input holding it does.
C2_RawTextGenerates ==
    (Ended /\ method = "generate" /\ gen.input_file.kind = "Unknown") =>
        /\ pc = "returned"
        /\ result = Returned(expand(gen.root_name, gen.schemafy_path,
                                    from_str(gen.input_file.text).val).val)

\* C3: the file read is the project root joined with the configured path when
\* that path is relative (one lookup of the root), and the configured path
\* itself, with no lookup of the root, when it is absolute.
C3_InputFileResolution ==
    (InRun /\ gen.input_file.kind = "File") =>
        LET p == gen.input_file.path IN
        /\ input_file.some =>
              IF is_relative(p)
              THEN /\ get_crate_root.ok
                   /\ input_file.val = [abs |-> get_crate_root.val.abs,
                                        comps |-> get_crate_root.val.comps \o p.comps]
                   /\ lookups = 1
              ELSE input_file.val = p /\ lookups = 0
        /\ ~is_relative(p) => lookups = 0 /\ (pc \notin {"generate", "resolve"} => input_file.some)
        /\ json.some => read_to_string(input_file.val) = Ok(json.val)

\* a relative path read below the directory the upward search found
C3_Witness ==
    /\ json.some /\ gen.input_file = File(RelSchema)
    /\ input_file.val = AbsPath(<<"w", "schema.json">>)
    /\ lookups = 1

\* C4: an unreadable input file and an input that is not valid JSON each end
\* the run with a panic whose message names the resolved input file (as
\* to_string_lossy renders it) and the underlying cause; no token stream exists.
C4_ReadAndParseErrorsAbort ==
    /\ (input_file.some /\ pc # "read" /\ ~read_to_string(input_file.val).ok) =>
          /\ pc = "panicked" /\ ~tokens.some /\ ~json.some
          /\ result = Panic([what |-> "Unable to read",
                             file |-> to_string_lossy(input_file.val),
                             cause |-> read_to_string(input_file.val).err])
    /\ (json.some /\ pc # "parse" /\ ~from_str(json.val).ok) =>
          /\ pc = "panicked" /\ ~tokens.some /\ ~schema.some
          /\ result = Panic([what |-> "Cannot parse as JSON",
                             file |-> to_string_lossy(input_file.val),
                             cause |-> from_str(json.val).err])

\* a relative input whose resolved file is no JSON
C4_Witness ==
    /\ pc = "panicked" /\ gen.input_file = File(RelSchema)
    /\ result.msg.what = "Cannot parse as JSON"
    /\ result.msg.file = AbsPath(<<"w", "schema.json">>)

\* C5: once the generated text is written, a formatter that cannot be launched
\* or exits unsuccessfully leaves the output file holding the complete
\* generated text.
C5_FormatterFailureKeepsText ==
    (fmt \in {"no_launch", "exit_failure"}) =>
        /\ written.some
        /\ out_file = Content(to_string(tokens.val))
        /\ out_file = written.val

C5_Witness ==
    /\ pc = "returned" /\ fmt = "exit_failure" /\ snap.out = Content(<<"old">>)
    /\ out_file = Content(<<"::schemafy_core::", "A">>)

\* the text this run generated, if any
RunText == IF tokens.some THEN Some(to_string(tokens.val)) ELSE None

LastCall(fns) ==
    LET idx == {i \in DOMAIN calls : calls[i].fn \in fns} IN
    IF idx = {} THEN 0 ELSE CHOOSE i \in idx : \A j \in idx : j <= i

ExpectedRootName ==
    LET i == LastCall({"with_root_name", "with_root_name_str"}) IN
    IF i = 0 THEN None
    ELSE IF calls[i].fn = "with_root_name" THEN calls[i].arg
    ELSE Some(calls[i].arg)

ExpectedSchemafyPath ==
    LET i == LastCall({"with_schemafy_path"}) IN
    IF i = 0 THEN "::schemafy_core::" ELSE calls[i].arg

ExpectedInput ==
    LET i == LastCall({"with_input_file", "with_input"}) IN
    IF i = 0 THEN [kind |-> "File", path |-> RelPath(<<"schema.json">>)]
    ELSE IF calls[i].fn = "with_input_file" THEN [kind |-> "File", path |-> calls[i].arg]
    ELSE [kind |-> "Unknown", text |-> calls[i].arg]

ExpectedGenerator ==
    [root_name |-> ExpectedRootName,
     schemafy_path |-> ExpectedSchemafyPath,
     input_file |-> ExpectedInput]

\* C7: after any sequence of builder calls, build() yields the configuration
\* in which each field is the argument of the last setter called for it, or
\* its default: root_name None, schemafy_path "::schemafy_core::", input
\* File("schema.json").
C7_BuilderLastSetterWins ==
    /\ inner = ExpectedGenerator
    /\ bpc = "built" => gen = ExpectedGenerator

\* with_input after with_input_file: the later one wins, the rest is default
C7_Witness ==
    /\ bpc = "built" /\ Len(calls) = 2
    /\ calls[1].fn = "with_input_file" /\ calls[2].fn = "with_input"
    /\ gen = [root_name |-> None, schemafy_path |-> "::schemafy_core::",
              input_file |-> Unknown("{A}")]

\* C8: a run leaves the Generator's fields as they were when it started, and
\* Expander::new is handed the configured root name and schemafy path.
C8_ConfigurationImmutable ==
    /\ InRun => (gen = snap.gen /\ gen \in Generators)
    /\ prev.valid => prev.gen = gen
    /\ exp_args.some =>
          exp_args.val = [root_name |-> gen.root_name, schemafy_path |-> gen.schemafy_path]
    /\ tokens.some => (tokens.val.alias = gen.root_name /\ tokens.val.prefix = gen.schemafy_path)

C8_Witness ==
    /\ pc = "returned" /\ ToFile /\ prev.valid
    /\ exp_args = Some([root_name |-> Some("Schema"), schemafy_path |-> "::my_core::"])

\* C9: generate_to_file returns Err exactly when writing the output file
\* failed or the formatter could not be launched; an unsuccessful exit of the
\* formatter still gives Ok; and with the formatter not launched the Err comes
\* with the complete unformatted text at the output path.
C9_ErrIffWriteOrLaunchFails ==
    (pc = "returned" /\ ToFile) =>
        /\ result.kind = "returned"
        /\ (~result.val.ok) = (~written.some \/ fmt = "no_launch")
        /\ fmt = "exit_failure" => result.val.ok
        /\ fmt = "no_launch" => out_file = Content(to_string(tokens.val))

C9_Witness ==
    /\ pc = "returned" /\ ToFile /\ fmt = "no_launch"
    /\ ~result.val.ok /\ out_file.exists /\ out_file = written.val

\* the nearest directory, from the current one upward, with an entry named
\* Cargo.toml (0 when there is none), as the claim describes the search
NearestManifest(anc) ==
    LET hits == {i \in DOMAIN anc :
                    /\ anc[i] \in DOMAIN dirs
                    /\ \E e \in dirs[anc[i]].entries : e.ok /\ e.file_name = "Cargo.toml"} IN
    IF hits = {} THEN 0 ELSE CHOOSE i \in hits : \A j \in hits : i <= j

ListingFailsBefore(anc, n) ==
    \E i \in DOMAIN anc :
        /\ (n = 0 \/ i <= n)
        /\ (anc[i] \notin DOMAIN dirs \/ ~dirs[anc[i]].listable)

SearchAsClaimed ==
    LET anc == ancestors(cwd.val)
        n == NearestManifest(anc) IN
    IF ListingFailsBefore(anc, n) THEN ~root_result.val.ok
    ELSE IF n = 0 THEN root_result.val = Ok(cwd.val)
    ELSE root_result.val = Ok(anc[n])

\* C10 as stated: with CARGO_MANIFEST_DIR set its value is returned;
\* otherwise the nearest directory from the current one upward with an entry
\* named Cargo.toml, the current directory when there is none, and an error
\* when a directory visited before a match cannot be listed.
C10_CrateRootLookup ==
    root_result.some =>
        IF manifest_dir.set THEN root_result.val = Ok(manifest_dir.val)
        ELSE cwd.ok => SearchAsClaimed

\* C10 for a value that is valid Unicode: what the lookup does do. A value
\* that is not valid Unicode is treated as unset.
C10_CrateRootLookupUnicode ==
    root_result.some =>
        IF manifest_dir.set /\ IsUnicode(manifest_dir.val)
        THEN root_result.val = Ok(manifest_dir.val)
        ELSE IF cwd.ok THEN SearchAsClaimed ELSE ~root_result.val.ok

====
